---- MODULE Spec2Model ----
(***************************************************************************)
(* A model of the 432 Hz converter: the two pipelines                      *)
(* commandconverter432.py and converter.py.  It holds the detector         *)
(* (analyze_tone), the resampler (speed_change), convert_to_432hz over a   *)
(* file system, batch_convert_directory, and main in its file, directory   *)
(* and URL modes.  The two scripts differ only in the URL branch of main.  *)
(*                                                                         *)
(* Units.  Frequencies of the note ladder are integers in hundredths of a  *)
(* hertz, candidate calibration frequencies are integers in tenths of a    *)
(* hertz, durations are integers in microseconds.  The three float         *)
(* literals of np.arange(424.0, 448.1, 0.1) are kept as the IEEE-754       *)
(* doubles Python reads them as, because the length of the range depends   *)
(* on their rounding.                                                      *)
(***************************************************************************)
EXTENDS Integers, Sequences, FiniteSets, TLC

(***************************************************************************)
(* Wide naturals: little-endian sequences of limbs in base 2^16.           *)
(* They hold a double exactly as a multiple of 2^-56.                      *)
(***************************************************************************)
LimbBase == 2 ^ 16

BigIsZero(x) == \A i \in 1..Len(x) : x[i] = 0

RECURSIVE BigCarry(_, _, _)
\* Normalises limb sums: x holds unnormalised limbs, c the carry into limb i.
BigCarry(x, i, c) ==
    IF i > Len(x) THEN <<>>
    ELSE <<(x[i] + c) % LimbBase>> \o BigCarry(x, i + 1, (x[i] + c) \div LimbBase)

BigMulSmall(x, k) == BigCarry([i \in 1..Len(x) |-> x[i] * k], 1, 0)

BigAdd(x, y) == BigCarry([i \in 1..Len(x) |-> x[i] + y[i]], 1, 0)

RECURSIVE BigCmpFrom(_, _, _)
\* -1, 0 or 1 as x is below, equal to or above y, comparing from limb i down.
BigCmpFrom(x, y, i) ==
    IF i = 0 THEN 0
    ELSE IF x[i] < y[i] THEN -1
    ELSE IF x[i] > y[i] THEN 1
    ELSE BigCmpFrom(x, y, i - 1)

BigCmp(x, y) == BigCmpFrom(x, y, Len(x))

RECURSIVE BigBorrow(_, _, _, _)
BigBorrow(x, y, i, b) ==
    IF i > Len(x) THEN <<>>
    ELSE LET d == x[i] - y[i] - b
         IN  IF d < 0 THEN <<d + LimbBase>> \o BigBorrow(x, y, i + 1, 1)
             ELSE <<d>> \o BigBorrow(x, y, i + 1, 0)

\* x - y for x >= y.
BigSub(x, y) == BigBorrow(x, y, 1, 0)

(***************************************************************************)
(* The doubles of the range, as multiples of 2^-56:                        *)
(*   424.0 = 0x1.a8p+8             = 0x1a800000000000000 * 2^-56           *)
(*   448.1 = 0x1.c01999999999ap+8  = 0x1c01999999999a000 * 2^-56           *)
(*   0.1   = 0x1.999999999999ap-4  = 0x1999999999999a    * 2^-56           *)
(***************************************************************************)
ArangeStart == <<0, 0, 0, 43008, 1>>

ArangeStop == <<40960, 39321, 39321, 49177, 1>>

ArangeStep == <<39322, 39321, 39321, 25, 0>>

\* Quotients of the model stay far below this cap (a range of a few hundred steps).
QuotCap == 2 ^ 10

\* floor(d / s): the k with k * s <= d < (k + 1) * s.
FloorQuot(d, s) ==
    CHOOSE k \in 0..QuotCap :
        /\ BigCmp(BigMulSmall(s, k), d) <= 0
        /\ BigCmp(BigMulSmall(s, k + 1), d) = 1

RECURSIVE FloorLog2(_)
FloorLog2(q) == IF q <= 1 THEN 0 ELSE 1 + FloorLog2(q \div 2)

RECURSIVE ExceedsDoubled(_, _, _)
\* r * 2^n > s, for r <= s, stopping as soon as it is decided.
ExceedsDoubled(r, n, s) ==
    IF BigCmp(r, s) = 1 THEN TRUE
    ELSE IF n = 0 THEN FALSE
    ELSE ExceedsDoubled(BigAdd(r, r), n - 1, s)

(***************************************************************************)
(* ceil(fl(d / s)) for doubles d >= s > 0 whose quotient is far below      *)
(* 2^52: with q = floor(d / s) and r = d - q * s, the double nearest to    *)
(* d / s is q itself exactly when r / s is at most half an ulp of q, that  *)
(* is r * 2^(53 - floor(log2 q)) <= s (a tie rounds to q, whose            *)
(* significand is even); otherwise it lies above q and the ceiling is      *)
(* q + 1.                                                                  *)
(***************************************************************************)
CeilOfQuotient(d, s) ==
    LET q == FloorQuot(d, s)
        r == BigSub(d, BigMulSmall(s, q))
    IN  IF BigIsZero(r) THEN q
        ELSE IF ExceedsDoubled(r, 53 - FloorLog2(q), s) THEN q + 1
        ELSE q

(***************************************************************************)
(* len(np.arange(start, stop, step)) = ceil((stop - start) / step) in      *)
(* double arithmetic.  stop - start is exact here: both are multiples of   *)
(* 2^-44 and the difference is below 2^5.                                  *)
(***************************************************************************)
ArangeLen == CeilOfQuotient(BigSub(ArangeStop, ArangeStart), ArangeStep)

(***************************************************************************)
(* Exact integer helpers for products that do not fit a machine word.      *)
(***************************************************************************)
RECURSIVE GCD(_, _)
GCD(a, b) == IF b = 0 THEN a ELSE GCD(b, a % b)

\* One Horner step: h is the quotient and remainder so far, t the new partial
\* dividend.
DivStep(h, t, d) == [q |-> h.q * 16 + t \div d, r |-> t % d]

MulDivDigit(h, digit, b, d) == DivStep(h, h.r * 16 + digit * b, d)

RECURSIVE MulDiv(_, _, _)
\* Quotient and remainder of a * b by d, by Horner's rule on the base-16
\* digits of a, so that no intermediate exceeds 16 * d + 15 * b.
MulDiv(a, b, d) ==
    IF a = 0 THEN [q |-> 0, r |-> 0]
    ELSE MulDivDigit(MulDiv(a \div 16, b, d), a % 16, b, d)

\* To nearest, ties to even, from quotient and remainder m of a division by d.
RoundHalfEven(m, d) ==
    IF 2 * m.r > d \/ (2 * m.r = d /\ m.q % 2 = 1) THEN m.q + 1 ELSE m.q

\* np.round of the non-negative rational a * b / d.
RoundMulDiv(a, b, d) == RoundHalfEven(MulDiv(a, b, d), d)

(***************************************************************************)
(* The canonical 440 Hz note ladder, in hundredths of a hertz.             *)
(***************************************************************************)
tone_freq ==
    << 1635, 1732, 1835, 1945, 2060, 2183, 2312, 2450, 2596, 2750, 2914, 3087,
       3270, 3465, 3671, 3889, 4120, 4365, 4625, 4900, 5191, 5500, 5827, 6174,
       6541, 6930, 7342, 7778, 8241, 8731, 9250, 9800, 10383, 11000, 11654, 12347,
       13081, 13859, 14683, 15556, 16481, 17461, 18500, 19600, 20765, 22000, 23308, 24694,
       26163, 27718, 29366, 31113, 32963, 34923, 36999, 39200, 41530, 44000, 46616, 49388,
       52325, 55437, 58733, 62225, 65925, 69846, 73999, 78399, 83061, 88000, 93233, 98777,
       104650, 110873, 117466, 124451, 131851, 139691, 147998, 156798, 166122, 176000, 186466, 197553,
       209300, 221746, 234932, 248902, 263702, 279383, 295996, 313596, 332244, 352000, 372931, 395107,
       418601, 443492, 469863, 497803, 527404, 558765, 591991, 627193, 664488, 704000, 745862, 790213 >>

\* 440.0 Hz, in tenths of a hertz.
ReferenceTenths == 4400

\* 424.0 Hz, the first element of the range, in tenths of a hertz.
FirstTenths == 4240

(***************************************************************************)
(* np.arange(424.0, 448.1, 0.1): ArangeLen elements, element i being       *)
(* 424.0 + i * 0.1 to within 1e-11, here in tenths of a hertz.             *)
(***************************************************************************)
ArangeValues == [i \in 1..ArangeLen |-> FirstTenths + (i - 1)]

\* tones: candidate -> its ladder, entry j standing for
\* tone_freq[j] * candidate / 440.0 (kept as the unevaluated pair).
tones ==
    [f \in {ArangeValues[i] : i \in 1..ArangeLen} |->
        [j \in 1..Len(tone_freq) |-> <<tone_freq[j], f>>]]

(***************************************************************************)
(* Audio segments (pydub.AudioSegment): frame rate, channel count and      *)
(* duration in microseconds.  The spectrum of a song's analysed window is  *)
(* carried by the song as the sparse map bin -> magnitude (`peaks`); all   *)
(* other bins are zero.                                                    *)
(***************************************************************************)
Second == 1000 * 1000

\* AudioSegment.silent(duration=ms): pydub's default frame_rate=11025, mono.
SilentFrameRate == 11025

Silent(ms) == [frame_rate |-> SilentFrameRate, channels |-> 1, dur_us |-> ms * 1000]

Max2(a, b) == IF a >= b THEN a ELSE b

\* a + b: pydub brings both segments to the greater frame rate and channel
\* count (AudioSegment._sync) and concatenates them.
Concat(a, b) ==
    [frame_rate |-> Max2(a.frame_rate, b.frame_rate),
     channels   |-> Max2(a.channels, b.channels),
     dur_us     |-> a.dur_us + b.dur_us]

\* seg[:ms]
SliceTo(seg, ms) ==
    [seg EXCEPT !.dur_us = IF seg.dur_us > ms * 1000 THEN ms * 1000 ELSE seg.dur_us]

SetChannels(seg, n) == [seg EXCEPT !.channels = n]

\* len(seg.get_array_of_samples()): frames times channels.
SampleCount(seg) == MulDiv(seg.dur_us, seg.frame_rate, Second).q * seg.channels

\* The audio analyze_tone windows: padded with silence when shorter than 101 s.
PaddedAudio(song) ==
    IF song.dur_us < 101 * Second
    THEN LET pad_ms == (120 * Second - song.dur_us) \div 1000
         IN  Concat([frame_rate |-> song.frame_rate, channels |-> song.channels,
                     dur_us |-> song.dur_us],
                    Silent(pad_ms))
    ELSE [frame_rate |-> song.frame_rate, channels |-> song.channels,
          dur_us |-> song.dur_us]

First100Second(song) == SetChannels(SliceTo(PaddedAudio(song), 100 * 1000), 1)

(***************************************************************************)
(* np.round(tone / freqstep) for ladder entry j of candidate f, with       *)
(* freqstep = sample_rate / samples_len:                                   *)
(*   tone_freq[j]/100 * (f/10) / 440 * samples_len / sample_rate           *)
(* reduced to lowest terms before multiplying.                             *)
(***************************************************************************)
HertzUnits == 100 * ReferenceTenths

\* round(note * f * num / (den * sample_rate)) with num / sample_rate reduced by g.
BinIndexReduced(note, f, num, den, sample_rate, g) ==
    RoundMulDiv(note, f * (num \div g), den * (sample_rate \div g))

\* samples_len / HertzUnits reduced by g first.
BinIndexUnits(note, f, sample_rate, samples_len, g) ==
    BinIndexReduced(note, f, samples_len \div g, HertzUnits \div g, sample_rate,
                    GCD(samples_len \div g, sample_rate))

BinIndex(j, f, sample_rate, samples_len) ==
    BinIndexUnits(tone_freq[j], f, sample_rate, samples_len, GCD(samples_len, HertzUnits))

\* np.round(tone / freqstep).astype(int) for the whole ladder of candidate f.
Indices(f, sample_rate, samples_len) ==
    [j \in 1..Len(tones[f]) |-> BinIndex(j, f, sample_rate, samples_len)]

Rates == {8000, 48000}

Durations == {80 * Second, 80 * Second + 500, 101 * Second, 130 * Second}

\* The (sample_rate, samples_len) pairs the songs of the model lead to.
Shapes ==
    {<<r, SampleCount(First100Second([frame_rate |-> r, channels |-> c, dur_us |-> d]))>> :
        r \in Rates, c \in {1, 2}, d \in Durations}

\* Indices, tabulated once for every shape, element i of the range and ladder
\* entry j.
IndexTable ==
    [k \in Shapes \X (1..ArangeLen) \X (1..Len(tone_freq)) |->
        Indices(ArangeValues[k[2]], k[1][1], k[1][2])[k[3]]]

\* fft_normed[idx]; -1 stands for the IndexError numpy raises on an index
\* >= len(fft_normed).
ReadBin(peaks, idx, n) ==
    IF idx >= n THEN -1
    ELSE IF idx \in DOMAIN peaks THEN peaks[idx] ELSE 0

AddSums(a, b) == IF a < 0 \/ b < 0 THEN -1 ELSE a + b

RECURSIVE SumBins(_, _, _, _, _, _)
\* np.sum(fft_normed[indices]) over ladder entries lo..hi of the i-th element;
\* -1 stands for the IndexError numpy raises on an index >= len(fft_normed).
SumBins(peaks, shape, i, n, lo, hi) ==
    IF lo = hi
    THEN ReadBin(peaks, IndexTable[<<shape, i, lo>>], n)
    ELSE AddSums(SumBins(peaks, shape, i, n, lo, (lo + hi) \div 2),
                 SumBins(peaks, shape, i, n, (lo + hi) \div 2 + 1, hi))

\* One pass of the loop body for the i-th element of the range.
\* The loop body once sum_freq is known for candidate `frequency`, the i-th.
Compare(st, i, frequency, sum_freq) ==
    IF sum_freq < 0
    THEN [st EXCEPT !.raised = TRUE, !.scanned = i]
    ELSE IF sum_freq > st.max_sum
    THEN [st EXCEPT !.max_sum = sum_freq, !.max_freq = frequency, !.scanned = i]
    ELSE [st EXCEPT !.scanned = i]

ScanStep(song, n, st, i) ==
    IF st.raised THEN st
    ELSE Compare(st, i, ArangeValues[i],
                 SumBins(song.peaks, <<song.frame_rate, n>>, i, n, 1, Len(tone_freq)))

RECURSIVE ScanRange(_, _, _, _, _), ScanRest(_, _, _, _, _)
\* The loop over elements lo..hi of the range, in ascending order.
ScanRange(song, n, st, lo, hi) ==
    IF lo > hi THEN st
    ELSE IF lo = hi THEN ScanStep(song, n, st, lo)
    ELSE ScanRest(song, n, ScanRange(song, n, st, lo, (lo + hi) \div 2),
                  (lo + hi) \div 2 + 1, hi)

\* The rest of the loop after the state `left`; an exception ends the loop.
ScanRest(song, n, left, lo, hi) ==
    IF left.raised THEN left ELSE ScanRange(song, n, left, lo, hi)

(***************************************************************************)
(* analyze_tone(song): the detected candidate in tenths of a hertz         *)
(* (max_freq, 0 when no candidate scored above 0), or raised = TRUE for    *)
(* the IndexError.  padded, window and samples_len record the              *)
(* intermediate values.                                                    *)
(***************************************************************************)
ToneResult(song, window, n, st) ==
    [max_freq    |-> st.max_freq,
     max_sum     |-> st.max_sum,
     raised      |-> st.raised,
     scanned     |-> st.scanned,
     padded      |-> PaddedAudio(song),
     window      |-> window,
     samples_len |-> n]

ScanAll(song, window, n) ==
    ToneResult(song, window, n,
               ScanRange(song, n,
                         [max_sum |-> 0, max_freq |-> 0, raised |-> FALSE, scanned |-> 0],
                         1, ArangeLen))

analyze_tone(song) == ScanAll(song, First100Second(song), SampleCount(First100Second(song)))

(***************************************************************************)
(* speed_change.  A sound is a frame rate and its samples; speed is the    *)
(* rational num / den.  int() truncates toward zero.                       *)
(***************************************************************************)
DEFAULT_TARGET_SAMPLE_RATE == 48000

\* sound._spawn(sound.raw_data, overrides={"frame_rate": rate}): the same
\* samples under another frame rate.
Spawn(sound, rate) == [sound EXCEPT !.frame_rate = rate]

\* Sample k (from 0) of the resampled sequence: linear interpolation at the
\* position k * inrate / outrate of the input.
Interpolate(samples, k, inrate, outrate) ==
    LET i    == (k * inrate) \div outrate
        frac == (k * inrate) % outrate
        a    == samples[i + 1]
        b    == IF i + 2 <= Len(samples) THEN samples[i + 2] ELSE a
    IN  (a * (outrate - frac) + b * frac) \div outrate

\* audioop.ratecv: the samples at another rate.
Ratecv(samples, inrate, outrate) ==
    [k \in 1..((Len(samples) * outrate) \div inrate) |->
        Interpolate(samples, k - 1, inrate, outrate)]

\* AudioSegment.set_frame_rate: the segment itself when the rate is already
\* the requested one, a resampled segment otherwise.
SetFrameRate(sound, rate) ==
    IF rate = sound.frame_rate THEN sound
    ELSE [frame_rate |-> rate, samples |-> Ratecv(sound.samples, sound.frame_rate, rate)]

\* A speed_change that ignores its target rate in favour of the default.
SpeedChangeDefaultRate(sound, speed, target_sample_rate) ==
    SetFrameRate(Spawn(sound, (sound.frame_rate * speed.num) \div speed.den),
                 DEFAULT_TARGET_SAMPLE_RATE)

speed_change(sound, speed, target_sample_rate) ==
    SetFrameRate(Spawn(sound, (sound.frame_rate * speed.num) \div speed.den),
                 target_sample_rate)

(***************************************************************************)
(* File names are sequences of one-character strings; a path is a          *)
(* directory and a name.                                                   *)
(***************************************************************************)
UpperCase ==
    <<"A", "B", "C", "D", "E", "F", "G", "H", "I", "J", "K", "L", "M",
      "N", "O", "P", "Q", "R", "S", "T", "U", "V", "W", "X", "Y", "Z">>

LowerCase ==
    <<"a", "b", "c", "d", "e", "f", "g", "h", "i", "j", "k", "l", "m",
      "n", "o", "p", "q", "r", "s", "t", "u", "v", "w", "x", "y", "z">>

ToLower == [c \in {UpperCase[i] : i \in 1..Len(UpperCase)} |->
               LowerCase[CHOOSE i \in 1..Len(UpperCase) : UpperCase[i] = c]]

LowerChar(c) == IF c \in DOMAIN ToLower THEN ToLower[c] ELSE c

RECURSIVE lower(_)
\* str.lower()
lower(name) ==
    IF name = <<>> THEN <<>> ELSE <<LowerChar(Head(name))>> \o lower(Tail(name))

\* str.endswith(suffix)
EndsWith(name, suffix) ==
    /\ Len(name) >= Len(suffix)
    /\ SubSeq(name, Len(name) - Len(suffix) + 1, Len(name)) = suffix

\* str.startswith(prefix)
StartsWith(name, prefix) ==
    /\ Len(name) >= Len(prefix)
    /\ SubSeq(name, 1, Len(prefix)) = prefix

SUPPORTED_FORMATS ==
    { <<".", "m", "p", "3">>, <<".", "w", "a", "v">>, <<".", "f", "l", "a", "c">>,
      <<".", "a", "a", "c">>, <<".", "m", "4", "a">>, <<".", "w", "m", "a">>,
      <<".", "o", "g", "g">> }

EndsWithAny(name, suffixes) == \E suffix \in suffixes : EndsWith(name, suffix)

\* input_file.lower().endswith(SUPPORTED_FORMATS)
Supported(name) == EndsWithAny(lower(name), SUPPORTED_FORMATS)

Prefix432 == <<"4", "3", "2", "h", "z", "_">>

\* Position of the last "." of the name, 0 when there is none.
LastDot(name) ==
    IF \E i \in 1..Len(name) : name[i] = "."
    THEN CHOOSE i \in 1..Len(name) :
            name[i] = "." /\ \A k \in (i + 1)..Len(name) : name[k] # "."
    ELSE 0

\* os.path.splitext(filename)[0]: the name up to its last dot, the whole name
\* when only leading dots precede that dot.
Stem(name) ==
    IF \E k \in 1..(LastDot(name) - 1) : name[k] # "."
    THEN SubSeq(name, 1, LastDot(name) - 1)
    ELSE name

\* f"432hz_{stem}.{target_format}"
NewFilename(filename, target_format) ==
    Prefix432 \o Stem(filename) \o <<".">> \o target_format

\* output_folder or folder, joined with the new file name ("" stands for None).
OutputFile(input_file, output_folder, target_format) ==
    [dir  |-> IF output_folder = "" THEN input_file.dir ELSE output_folder,
     name |-> NewFilename(input_file.name, target_format)]

(***************************************************************************)
(* The file system: `files` maps each existing path to its content, `dirs` *)
(* is the set of existing directories.  A content names the song the file  *)
(* decodes to ("corrupt" when it does not decode), and for a converted     *)
(* file the song, detected tone and format it was made from.               *)
(***************************************************************************)
Media(s) == [song |-> s, of |-> "", tone |-> 0, format |-> <<>>]

WriteFile(files, path, content) ==
    [q \in DOMAIN files \cup {path} |-> IF q = path THEN content ELSE files[q]]

RemoveFiles(files, paths) == [q \in DOMAIN files \ paths |-> files[q]]

InDir(files, d) == {q \in DOMAIN files : q.dir = d}

\* The songs files of the model decode to.
FileSongs ==
    [tone445  |-> [frame_rate |-> 48000, channels |-> 2, dur_us |-> 130 * Second,
                   peaks |-> [b \in {44500} |-> 1]],
     tone440  |-> [frame_rate |-> 48000, channels |-> 1, dur_us |-> 80 * Second,
                   peaks |-> [b \in {44000} |-> 1]],
     tuned432 |-> [frame_rate |-> 48000, channels |-> 2, dur_us |-> 130 * Second,
                   peaks |-> [b \in {43200} |-> 1]],
     silent   |-> [frame_rate |-> 48000, channels |-> 1, dur_us |-> 80 * Second,
                   peaks |-> [b \in {} |-> 0]],
     lowrate  |-> [frame_rate |-> 8000, channels |-> 1, dur_us |-> 130 * Second,
                   peaks |-> [b \in {44000} |-> 1]]]

\* analyze_tone of each of them, computed once.
detected == [s \in DOMAIN FileSongs |-> analyze_tone(FileSongs[s])]

(***************************************************************************)
(* convert_to_432hz.  The result is the new file system, the stages the    *)
(* call went through, its status, and whether an exception left the call.  *)
(* `encode` is what the codec does on export: "ok", "fail" (nothing        *)
(* written) or "partial" (it fails leaving a truncated file).              *)
(***************************************************************************)
Outcome(files, stages, status, raised) ==
    [files |-> files, stages |-> stages, status |-> status, raised |-> raised]

\* new_song.export(output_file, ...)
Export(files, dirs, song, output_file, target_format, encode) ==
    IF output_file.dir \notin dirs
    THEN Outcome(files, <<"decode", "detect", "resample", "encode">>, "failed", TRUE)
    ELSE IF encode = "ok"
    THEN Outcome(WriteFile(files, output_file,
                           [song |-> "tuned432", of |-> song,
                            tone |-> detected[song].max_freq, format |-> target_format]),
                 <<"decode", "detect", "resample", "encode">>, "converted", FALSE)
    ELSE IF encode = "partial"
    THEN Outcome(WriteFile(files, output_file,
                           [song |-> "corrupt", of |-> song,
                            tone |-> detected[song].max_freq, format |-> target_format]),
                 <<"decode", "detect", "resample", "encode">>, "failed", TRUE)
    ELSE Outcome(files, <<"decode", "detect", "resample", "encode">>, "failed", TRUE)

\* The body of the try block after the existence check: decode, detect,
\* ratio, resample, export.  raised = TRUE when a statement raises.
Process(files, dirs, input_file, output_file, target_format, encode) ==
    IF input_file \notin DOMAIN files \/ files[input_file].song \notin DOMAIN FileSongs
    THEN Outcome(files, <<"decode">>, "failed", TRUE)
    ELSE IF detected[files[input_file].song].raised
    THEN Outcome(files, <<"decode", "detect">>, "failed", TRUE)
    ELSE IF detected[files[input_file].song].max_freq = 0
    THEN Outcome(files, <<"decode", "detect">>, "failed", TRUE)   \* 432.0 / 0
    ELSE Export(files, dirs, files[input_file].song, output_file, target_format, encode)

\* A convert_to_432hz without the try/except: the exception leaves the call.
CatchNothing(outcome) == outcome

\* except Exception as e: print(...)
Catch(outcome) == [outcome EXCEPT !.raised = FALSE]

\* An existence check that never finds the output.
NeverExists(files, output_file) == FALSE

\* os.path.exists(output_file)
OutputExists(files, output_file) == output_file \in DOMAIN files

convert_to_432hz(files, dirs, input_file, output_folder, target_format, encode) ==
    IF ~Supported(input_file.name)
    THEN Outcome(files, <<>>, "unsupported", FALSE)
    ELSE IF OutputExists(files, OutputFile(input_file, output_folder, target_format))
    THEN Outcome(files, <<>>, "skipped", FALSE)
    ELSE Catch(Process(files, dirs, input_file,
                       OutputFile(input_file, output_folder, target_format),
                       target_format, encode))

\* The record kept of one call.
CallRecord(files, input_file, output_folder, target_format, outcome) ==
    [input   |-> input_file,
     output  |-> OutputFile(input_file, output_folder, target_format),
     existed |-> OutputFile(input_file, output_folder, target_format) \in DOMAIN files,
     before  |-> IF OutputFile(input_file, output_folder, target_format) \in DOMAIN files
                 THEN files[OutputFile(input_file, output_folder, target_format)]
                 ELSE Media("none"),
     after   |-> IF OutputFile(input_file, output_folder, target_format)
                        \in DOMAIN outcome.files
                 THEN outcome.files[OutputFile(input_file, output_folder, target_format)]
                 ELSE Media("none"),
     stages  |-> outcome.stages,
     status  |-> outcome.status]

(***************************************************************************)
(* batch_convert_directory: the selection of the files of a listing.       *)
(***************************************************************************)
\* A selection that forgets the 432hz_ prefix test.
SelectedAnyPrefix(filename) == Supported(filename)

\* f.lower().endswith(SUPPORTED_FORMATS) and not f.startswith("432hz_")
Selected(filename) == Supported(filename) /\ ~StartsWith(filename, Prefix432)

\* [f for f in os.listdir(directory) if ...]: the selected names of a listing
FilesToConvert(names) == {f \in names : Selected(f)}

\* The orders os.listdir may return names in.
RECURSIVE Orderings(_)
Orderings(S) ==
    IF S = {} THEN {<<>>}
    ELSE UNION {{<<x>> \o q : q \in Orderings(S \ {x})} : x \in S}

(***************************************************************************)
(* Inputs of the detector and of the resampler.                            *)
(***************************************************************************)
PeakBins == {43000, 44000, 44810}

Mags == 0..1

Songs ==
    [frame_rate : Rates, channels : {1, 2}, dur_us : Durations, peaks : [PeakBins -> Mags]]

\* The longest sample sequence given to speed_change.
MaxSamples == 2

SampleValues == {-1, 0, 1}

RECURSIVE SeqsUpTo(_, _)
SeqsUpTo(S, n) ==
    IF n = 0 THEN {<<>>}
    ELSE SeqsUpTo(S, n - 1) \cup {Append(q, v) : q \in SeqsUpTo(S, n - 1), v \in S}

Sounds == [frame_rate : Rates, samples : SeqsUpTo(SampleValues, MaxSamples)]

\* Speed ratios with an exact double: 1.0, 0.5, 1.5.
Speeds == {[num |-> 1, den |-> 1], [num |-> 1, den |-> 2], [num |-> 3, den |-> 2]}

(***************************************************************************)
(* The files and arguments the runs of main are given.                     *)
(***************************************************************************)
MaxRuns == 2

Pipelines == {"commandconverter432", "converter"}

\* temp_folder of commandconverter432.py, temp_dir of converter.py
TempDir(script) ==
    IF script = "commandconverter432" THEN "temp_youtube_audio" ELSE "temp_audio_downloads"

InputDir == "music"

OutputDir == "converted"

Mp3 == <<"m", "p", "3">>

Wav == <<"w", "a", "v">>

Formats == {Mp3, Wav}

\* The content of each name a music directory may hold.
Library ==
    (<<"a", ".", "m", "p", "3">> :> Media("tone445")) @@
    (<<"a", ".", "W", "A", "V">> :> Media("tone440")) @@
    (<<"4", "3", "2", "h", "z", "_", "a", ".", "m", "p", "3">> :> Media("tuned432")) @@
    (<<"s", ".", "o", "g", "g">> :> Media("silent")) @@
    (<<"n", ".", "t", "x", "t">> :> Media("corrupt"))

\* What the downloader may leave in the temporary directory.
Fetchable ==
    (<<"a", ".", "m", "p", "3">> :> Media("tone445")) @@
    (<<"l", ".", "m", "p", "3">> :> Media("lowrate")) @@
    (<<"b", ".", "m", "p", "3">> :> Media("tone440"))

EncodeResults == {"ok", "fail", "partial"}

VARIABLES toneInput, toneOutput, speedInput, speedOutput,
          pipeline, disk, folders, pc, mode, outArg, fmtArg,
          queue, done, calls, pending, exit, runs

toneVars == <<toneInput, toneOutput>>

speedVars == <<speedInput, speedOutput>>

mainVars == <<pipeline, disk, folders, pc, mode, outArg, fmtArg,
              queue, done, calls, pending, exit, runs>>

vars == <<toneVars, speedVars, mainVars>>

NoTone == [raised |-> FALSE, scanned |-> -1]

NoSound == [frame_rate |-> 0, samples |-> <<>>]

NoSpeedInput == [sound |-> NoSound, speed |-> [num |-> 1, den |-> 1], target |-> 0]

ToneIdle == toneInput = [frame_rate |-> 0] /\ toneOutput = NoTone

SpeedIdle == speedInput = NoSpeedInput /\ speedOutput = NoSound

\* No run of main has started.
MainFresh ==
    /\ pc = "idle" /\ mode = "none"
    /\ queue = <<>> /\ done = 0 /\ calls = <<>>
    /\ pending = "none" /\ exit = "none" /\ runs = 0

\* The options -o and -f the runs of main are given ("" stands for no -o).
Options == outArg \in {"", OutputDir} /\ fmtArg \in Formats

MainIdle ==
    /\ pipeline = "none" /\ disk = <<>> /\ folders = {}
    /\ outArg = "" /\ fmtArg = Mp3
    /\ MainFresh

(***************************************************************************)
(* analyze_tone on its own.                                                *)
(***************************************************************************)
InitTone == toneInput \in Songs /\ toneOutput = NoTone /\ SpeedIdle /\ MainIdle

Analyze ==
    /\ toneOutput = NoTone
    /\ toneOutput' = analyze_tone(toneInput)
    /\ UNCHANGED <<toneInput, speedVars, mainVars>>

NextTone == Analyze

SpecTone == InitTone /\ [][NextTone]_vars

(***************************************************************************)
(* speed_change on its own.                                                *)
(***************************************************************************)
InitSpeed ==
    /\ speedInput \in [sound : Sounds, speed : Speeds, target : Rates]
    /\ speedOutput = NoSound
    /\ ToneIdle /\ MainIdle

SpeedChange ==
    /\ speedOutput = NoSound
    /\ speedOutput' = speed_change(speedInput.sound, speedInput.speed, speedInput.target)
    /\ UNCHANGED <<speedInput, toneVars, mainVars>>

NextSpeed == SpeedChange

SpecSpeed == InitSpeed /\ [][NextSpeed]_vars

(***************************************************************************)
(* main on a file or a directory.                                          *)
(***************************************************************************)
InitLocal ==
    /\ pipeline \in Pipelines
    /\ \E S \in SUBSET DOMAIN Library :
          disk = [q \in {[dir |-> InputDir, name |-> n] : n \in S} |-> Library[q.name]]
    /\ folders \in {{InputDir}, {InputDir, OutputDir}}
    /\ Options
    /\ MainFresh
    /\ ToneIdle /\ SpeedIdle

CanStart == pc \in {"idle", "ended"} /\ runs < MaxRuns

\* The effect of one call of convert_to_432hz on the disk and on the record
\* of the calls of the run.
Called(input_file, outcome) ==
    /\ disk' = outcome.files
    /\ calls' = Append(calls, CallRecord(disk, input_file, outArg, fmtArg, outcome))

\* elif os.path.isfile(args.input): convert_to_432hz(args.input, ...)
FileCall(input_file, outcome) ==
    /\ disk' = outcome.files
    /\ calls' = <<CallRecord(disk, input_file, outArg, fmtArg, outcome)>>
    /\ exit' = IF outcome.raised THEN "convert_error" ELSE "ok"

RunFile ==
    /\ CanStart
    /\ \E input_file \in DOMAIN disk, encode \in EncodeResults :
          FileCall(input_file,
                   convert_to_432hz(disk, folders, input_file, outArg, fmtArg, encode))
    /\ mode' = "file" /\ pc' = "ended" /\ runs' = runs + 1
    /\ queue' = <<>> /\ done' = 0
    /\ UNCHANGED <<pipeline, folders, outArg, fmtArg, pending, toneVars, speedVars>>

\* elif os.path.isdir(args.input): batch_convert_directory(...) up to its loop
StartBatch ==
    /\ CanStart
    /\ InputDir \in folders
    /\ queue' \in Orderings(FilesToConvert({q.name : q \in InDir(disk, InputDir)}))
    /\ mode' = "batch" /\ pc' = "batch" /\ runs' = runs + 1
    /\ done' = 0 /\ calls' = <<>> /\ exit' = "none"
    /\ UNCHANGED <<pipeline, disk, folders, outArg, fmtArg, pending, toneVars, speedVars>>

\* An exception that leaves convert_to_432hz ends the loop and the run.
LoopCall(input_file, outcome) ==
    /\ Called(input_file, outcome)
    /\ IF outcome.raised
       THEN pc' = "ended" /\ exit' = "convert_error"
       ELSE pc' = pc /\ exit' = exit

\* One iteration of the loop of batch_convert_directory.
BatchStep ==
    /\ pc = "batch"
    /\ done < Len(queue)
    /\ \E encode \in EncodeResults :
          LoopCall([dir |-> InputDir, name |-> queue[done + 1]],
                   convert_to_432hz(disk, folders,
                                    [dir |-> InputDir, name |-> queue[done + 1]],
                                    outArg, fmtArg, encode))
    /\ done' = done + 1
    /\ UNCHANGED <<pipeline, folders, mode, outArg, fmtArg, queue, pending, runs,
                   toneVars, speedVars>>

\* The loop is exhausted: print("Batch conversion complete.")
BatchEnd ==
    /\ pc = "batch"
    /\ done = Len(queue)
    /\ pc' = "ended" /\ exit' = "ok"
    /\ UNCHANGED <<pipeline, disk, folders, mode, outArg, fmtArg, queue, done,
                   calls, pending, runs, toneVars, speedVars>>

\* else: print(... is not a valid file, directory, or YouTube URL)
RunInvalid ==
    /\ CanStart
    /\ \E n \in DOMAIN Library : [dir |-> InputDir, name |-> n] \notin DOMAIN disk
    /\ mode' = "invalid" /\ pc' = "ended" /\ exit' = "ok" /\ runs' = runs + 1
    /\ queue' = <<>> /\ done' = 0 /\ calls' = <<>>
    /\ UNCHANGED <<pipeline, disk, folders, outArg, fmtArg, pending,
                   toneVars, speedVars>>

NextLocal == RunFile \/ StartBatch \/ BatchStep \/ BatchEnd \/ RunInvalid

SpecLocal == InitLocal /\ [][NextLocal]_vars

(***************************************************************************)
(* main on URLs (--youtube).                                               *)
(***************************************************************************)
InitUrl ==
    /\ pipeline \in Pipelines
    /\ disk = <<>>
    /\ folders \in {{}, {OutputDir}}
    /\ Options
    /\ MainFresh
    /\ ToneIdle /\ SpeedIdle

\* os.makedirs(temp, exist_ok=True)
StartUrl ==
    /\ CanStart
    /\ folders' = folders \cup {TempDir(pipeline)}
    /\ mode' = "url" /\ pc' = "download" /\ runs' = runs + 1
    /\ queue' = <<>> /\ done' = 0 /\ calls' = <<>>
    /\ pending' = "none" /\ exit' = "none"
    /\ UNCHANGED <<pipeline, disk, outArg, fmtArg, toneVars, speedVars>>

\* The disk after the downloader wrote the files `got` into the directory d.
Downloaded(files, d, got) ==
    [q \in DOMAIN files \cup {[dir |-> d, name |-> n] : n \in got} |->
        IF q.dir = d /\ q.name \in got THEN Fetchable[q.name] ELSE files[q]]

\* f.endswith('.mp3') for f in os.listdir(output_folder)
Mp3Names(files, d) ==
    {q.name : q \in {r \in InDir(files, d) : EndsWith(r.name, <<".", "m", "p", "3">>)}}

\* download_youtube_audio / download_platform_audio: it writes some files and
\* either raises or returns every .mp3 of the directory.
Download ==
    /\ pc = "download"
    /\ \E got \in SUBSET DOMAIN Fetchable, raises \in BOOLEAN :
          /\ disk' = Downloaded(disk, TempDir(pipeline), got)
          /\ IF raises
             THEN /\ queue' = <<>>
                  /\ IF pipeline = "converter"
                     THEN pc' = "cleanup" /\ pending' = "download_error" /\ exit' = exit
                     ELSE pc' = "ended" /\ pending' = pending /\ exit' = "download_error"
             ELSE /\ queue' \in Orderings(Mp3Names(Downloaded(disk, TempDir(pipeline), got),
                                                    TempDir(pipeline)))
                  /\ pc' = "convert" /\ pending' = pending /\ exit' = exit
    /\ UNCHANGED <<pipeline, folders, mode, outArg, fmtArg, done, calls,
                   runs, toneVars, speedVars>>

\* An exception in the loop: converter.py runs its finally block and the
\* exception goes on afterwards, commandconverter432.py ends at once.
UrlCall(input_file, outcome) ==
    /\ Called(input_file, outcome)
    /\ IF outcome.raised
       THEN IF pipeline = "converter"
            THEN pc' = "cleanup" /\ pending' = "convert_error" /\ exit' = exit
            ELSE pc' = "ended" /\ pending' = pending /\ exit' = "convert_error"
       ELSE pc' = pc /\ pending' = pending /\ exit' = exit

\* One iteration of: for file in downloaded: convert_to_432hz(file, ...)
UrlConvert ==
    /\ pc = "convert"
    /\ done < Len(queue)
    /\ \E encode \in EncodeResults :
          UrlCall([dir |-> TempDir(pipeline), name |-> queue[done + 1]],
                  convert_to_432hz(disk, folders,
                                   [dir |-> TempDir(pipeline), name |-> queue[done + 1]],
                                   outArg, fmtArg, encode))
    /\ done' = done + 1
    /\ UNCHANGED <<pipeline, folders, mode, outArg, fmtArg, queue, runs,
                   toneVars, speedVars>>

\* commandconverter432.py: for file in downloaded_files: os.remove(file)
RemoveDownloaded(files, d, downloaded) ==
    RemoveFiles(files, {[dir |-> d, name |-> downloaded[i]] : i \in 1..Len(downloaded)})

\* converter.py: for file in os.listdir(temp_dir): os.remove(...)
RemoveListed(files, d) == RemoveFiles(files, InDir(files, d))

\* The cleanup of the script: what it removes, then os.rmdir, which raises
\* OSError on a directory that is not empty.
Cleanup ==
    /\ \/ pc = "convert" /\ done = Len(queue)
       \/ pc = "cleanup"
    /\ IF pipeline = "converter"
       THEN /\ disk' = RemoveListed(disk, TempDir(pipeline))
            /\ folders' = folders \ {TempDir(pipeline)}
            /\ exit' = IF pending # "none" THEN pending ELSE "ok"
       ELSE /\ disk' = RemoveDownloaded(disk, TempDir(pipeline), queue)
            /\ IF InDir(RemoveDownloaded(disk, TempDir(pipeline), queue),
                        TempDir(pipeline)) = {}
               THEN folders' = folders \ {TempDir(pipeline)} /\ exit' = "ok"
               ELSE folders' = folders /\ exit' = "cleanup_error"
    /\ pc' = "ended" /\ pending' = "none"
    /\ UNCHANGED <<pipeline, mode, outArg, fmtArg, queue, done, calls,
                   runs, toneVars, speedVars>>

NextUrl == StartUrl \/ Download \/ UrlConvert \/ Cleanup

SpecUrl == InitUrl /\ [][NextUrl]_vars

(***************************************************************************)
(* Claims about the detector.                                              *)
(***************************************************************************)
Analysed == toneOutput # NoTone

\* The aggregate score of the i-th element of the range for the analysed song.
Score(i) ==
    SumBins(toneInput.peaks, <<toneInput.frame_rate, toneOutput.samples_len>>, i,
            toneOutput.samples_len, 1, Len(tone_freq))

\* C5: for every input spectrum, silence included, analyze_tone returns a
\* member of the candidate grid in [424.0, 448.0]: the candidate of greatest
\* score, the lowest one among equals; the detector has no failure of its own.
C5_ReturnsBestGridMember ==
    Analysed =>
        /\ ~toneOutput.raised
        /\ toneOutput.max_freq \in DOMAIN tones
        /\ toneOutput.max_freq >= 4240 /\ toneOutput.max_freq <= 4480
        /\ \A i \in 1..ArangeLen :
              /\ Score(i) <= toneOutput.max_sum
              /\ Score(i) = toneOutput.max_sum => ArangeValues[i] >= toneOutput.max_freq

\* C6: a bin index outside the spectrum contributes zero to the candidate's
\* sum; the spectrum is never read out of bounds and no error is raised, so
\* every candidate is scored.
C6_OutOfRangeBinsContributeZero ==
    Analysed => ~toneOutput.raised /\ toneOutput.scanned = ArangeLen

\* C7: the candidate grid and the sequence analyze_tone scans hold exactly 241
\* entries, strictly increasing from 424.0 to 448.0 in steps of 0.1, none above
\* 448.0, and every scanned candidate has an entry in the grid.
C7_GridHas241Entries ==
    /\ Cardinality(DOMAIN tones) = 241
    /\ ArangeLen = 241
    /\ ArangeValues[1] = 4240
    /\ ArangeValues[ArangeLen] = 4480
    /\ \A i \in 1..(ArangeLen - 1) : ArangeValues[i + 1] = ArangeValues[i] + 1
    /\ \A f \in DOMAIN tones : f <= 4480
    /\ Analysed => \A i \in 1..toneOutput.scanned : ArangeValues[i] \in DOMAIN tones

\* C8: an input shorter than 101 s is padded to exactly 120 s, a longer one is
\* used as it is, and the analysed window is the first 100 s in one channel, so
\* that the transform length is that of 100 s at the native sample rate.
C8_PadsTo120AndWindows100 ==
    Analysed =>
        /\ toneInput.dur_us < 101 * Second => toneOutput.padded.dur_us = 120 * Second
        /\ toneInput.dur_us >= 101 * Second =>
              toneOutput.padded =
                  [frame_rate |-> toneInput.frame_rate, channels |-> toneInput.channels,
                   dur_us |-> toneInput.dur_us]
        /\ toneOutput.window.dur_us = 100 * Second
        /\ toneOutput.window.channels = 1
        /\ toneOutput.samples_len = 100 * toneInput.frame_rate

(***************************************************************************)
(* Claims about the resampler.                                             *)
(***************************************************************************)
IdentityCase ==
    /\ speedInput.speed.num = speedInput.speed.den
    /\ speedInput.target = speedInput.sound.frame_rate

\* C9: speed_change with speed 1.0 and the target rate equal to the native
\* frame rate returns the input's sample rate and samples.
C9_UnitSpeedSameRateIsIdentity ==
    (speedOutput # NoSound /\ IdentityCase) =>
        /\ speedOutput.frame_rate = speedInput.sound.frame_rate
        /\ speedOutput.samples = speedInput.sound.samples

C9_Witness ==
    /\ speedOutput # NoSound
    /\ IdentityCase
    /\ Len(speedInput.sound.samples) = MaxSamples
    /\ speedInput.sound.frame_rate # DEFAULT_TARGET_SAMPLE_RATE
(***************************************************************************)
(* Claims about main, convert_to_432hz and batch_convert_directory.        *)
(***************************************************************************)
UrlEnded == mode = "url" /\ pc = "ended"

BatchEnded == mode = "batch" /\ pc = "ended"

\* C1: in URL mode the temporary download directory is deleted before main
\* ends on every exit path (normal completion, converter failure, downloader
\* failure), in both pipelines.
C1_TempDirRemovedOnEveryExit == UrlEnded => TempDir(pipeline) \notin folders

\* C2: a call of convert_to_432hz whose output path already exists performs no
\* stage and leaves that file as it was, so that a second call with the same
\* arguments after a successful one converts nothing and the file keeps its
\* content.
C2_ExistingOutputSkipsConversion ==
    \A i \in 1..Len(calls) :
       /\ calls[i].existed =>
             /\ calls[i].stages = <<>>
             /\ calls[i].after = calls[i].before
             /\ calls[i].status \in {"skipped", "unsupported"}
       /\ calls[i].status = "converted" =>
             /\ ~calls[i].existed
             /\ calls[i].after.song = "tuned432"
             /\ i = Len(calls) => calls[i].output \in DOMAIN disk

\* A second run calls convert_to_432hz on an input whose output an earlier
\* run converted from that same input, and skips it.
C2_Witness ==
    /\ runs = 2
    /\ \E i \in 1..Len(calls) :
          /\ calls[i].status = "skipped"
          /\ calls[i].before.song = "tuned432"
          /\ calls[i].input \in DOMAIN disk
          /\ calls[i].before.of = disk[calls[i].input].song
          /\ calls[i].before.format = fmtArg
          /\ disk[calls[i].output] = calls[i].before

\* C3: in batch mode convert_to_432hz is invoked once for each selected file,
\* in the order of the list, whatever the earlier calls did, and the batch
\* ends only after the last file, normally.
C3_BatchSurvivesFailures ==
    mode = "batch" =>
       /\ pc \in {"batch", "ended"}
       /\ Len(calls) = done
       /\ done <= Len(queue)
       /\ \A i \in 1..done : calls[i].input = [dir |-> InputDir, name |-> queue[i]]
       /\ pc = "ended" => done = Len(queue) /\ exit = "ok"

C3_Witness ==
    /\ BatchEnded
    /\ \E i, j \in 1..Len(calls) :
          i < j /\ calls[i].status = "failed" /\ calls[j].status = "converted"

\* C4: batch mode passes to convert_to_432hz only names that end in a
\* supported extension (case-insensitively) and do not start with 432hz_; the
\* list is fixed before the loop, so no output written during the run is
\* processed by it.
C4_BatchSelectsUnconvertedSupported ==
    mode = "batch" =>
       /\ \A i \in 1..Len(queue) :
             Supported(queue[i]) /\ ~StartsWith(queue[i], Prefix432)
       /\ \A i \in 1..Len(calls) :
             /\ Supported(calls[i].input.name)
             /\ ~StartsWith(calls[i].input.name, Prefix432)
             /\ \A k \in 1..(i - 1) : calls[i].input # calls[k].output

C4_Witness ==
    /\ BatchEnded
    /\ outArg = ""
    /\ \E q \in InDir(disk, InputDir) : StartsWith(q.name, Prefix432) /\ disk[q].of = ""
    /\ \E q \in InDir(disk, InputDir) : ~Supported(q.name)
    /\ \E i, j \in 1..Len(calls) : i < j /\ calls[i].status = "converted"

\* C10: in URL mode every output written by a successful conversion still
\* exists when main ends, also without -o, and the cleanup of the temporary
\* directory completes without error.
C10_OutputsSurviveCleanup ==
    UrlEnded =>
       /\ exit # "cleanup_error"
       /\ \A i \in 1..Len(calls) :
             calls[i].status = "converted" => calls[i].output \in DOMAIN disk

====
